---- MODULE Spec2Model ----
(***************************************************************************)
(* The collapsible widget of mdl-ext (src/src/collapsible/collapsible.js)  *)
(* as a state machine over the part of the document it reads and writes:   *)
(* the control element's attributes, the elements following the widget     *)
(* root, and the listeners attached to the control.                        *)
(*                                                                         *)
(* An attribute value that holds a space separated list (aria-controls) is *)
(* kept as the sequence of its tokens, i.e. as what String.split(' ')      *)
(* returns for it: the empty string is <<"">>, "a b" is <<"a", "b">> and   *)
(* " a" is <<"", "a">>.  Every other attribute is a string, NoAttr when    *)
(* the element does not carry the attribute.                               *)
(***************************************************************************)
EXTENDS Integers, Sequences, FiniteSets, TLC

\* ------------------------------------------------------------------ bounds

\* Number of element siblings that follow the widget root in the document.
NumElems == 2

\* Longest aria-controls id list the initial markup carries.
MaxInitControls == 2
NumItems == 3
MaxInstances == 2

\* ------------------------------------------------------- program constants

JS_COLLAPSIBLE == "mdlext-js-collapsible"
COLLAPSIBLE_CONTROL_CLASS == "mdlext-collapsible-control"
COLLAPSIBLE_REGION_CLASS == "mdlext-collapsible-region"

\* Key codes, by name: the handlers only compare them for equality.
VK_ENTER == "VK_ENTER"
VK_SPACE == "VK_SPACE"
VK_TAB == "VK_TAB"
VK_ESC == "VK_ESC"
VK_ARROW_LEFT == "VK_ARROW_LEFT"
VK_ARROW_UP == "VK_ARROW_UP"
VK_ARROW_RIGHT == "VK_ARROW_RIGHT"
VK_ARROW_DOWN == "VK_ARROW_DOWN"
KeyCodes == {VK_ENTER, VK_SPACE, VK_TAB}

IS_UPGRADED == "is-upgraded"

\* ------------------------------------------------------------ the document

NoAttr == "<no attribute>"

Elems == 1..NumElems

\* The id the markup gives element e, when it gives it one.
MarkupIdList == <<"r1", "r2", "r3", "r4", "r5", "r6">>
MarkupId(e) == MarkupIdList[e]

\* `region-${randomString()}`: an element gets a generated id at most once
\* (it has an id afterwards), so one fresh name per element is all that is
\* ever drawn.
GenIdList == <<"region-1", "region-2", "region-3", "region-4", "region-5", "region-6">>
randomId(e) == GenIdList[e]

VARIABLES
  phase,        \* "markup": not upgraded yet; "upgraded"; "failed": construction threw
  childControl, \* a descendant of the root carries COLLAPSIBLE_CONTROL_CLASS
  rootClasses,  \* the classes of the widget root that the widget reads or writes
  nodeName,     \* the control element's nodeName
  control,      \* the control element's attributes
  regions,      \* the following siblings of the root, in document order
  listeners,    \* the listeners on the control: an event type with the Collapsible
                \* instance whose handler it is
  instance,     \* the number of Collapsible instances constructed for the root; the
                \* widget's instance is the last one
  thrown,       \* what the last operation threw: "none", "Error", "SyntaxError"
  last,         \* the last operation, with its argument
  returned,     \* the elements the last operation returned, <<>> when it returns none
  downgraded,   \* the widget has been downgraded
  writes,       \* the elements the last operation's expand or collapse wrote to, in
                \* the order of the writes: 0 for the control, e for sibling e
  menu,         \* the menu button: its attributes, its menu, the focus, the events sent
  menuLast      \* the last input to the menu button, with its item and its result

collapsibleVars ==
  <<phase, childControl, rootClasses, nodeName, control, regions, listeners, instance, thrown,
    last, returned, downgraded, writes>>

menuVars == <<menu, menuLast>>

vars == <<collapsibleVars, menuVars>>

\* The state no operation of the collapsible's construction or mutation writes.
unrelated == <<menuVars>>

\* String.prototype.toLowerCase over the attribute values of the model.
toLowerCase(s) ==
  CASE s = "MAYBE" -> "maybe"
    [] s = "TRUE" -> "true"
    [] s = "FALSE" -> "false"
    [] s = "BUTTON" -> "button"
    [] s = "DIV" -> "div"
    [] OTHER -> s

\* String.prototype.split(' ') of an attribute value: the value is kept as
\* its tokens already.
split(v) == v

\* Array.prototype.join(' ') followed by reading the attribute back as
\* tokens: the empty array joins to the empty string, whose only token is
\* the empty string.
join(ids) == IF ids = <<>> THEN <<"">> ELSE ids

Range(s) == {s[i] : i \in 1..Len(s)}

RECURSIVE SelectSeqBy(_, _)
\* Array.prototype.filter with the set of kept values as the test.
SelectSeqBy(s, keep) ==
  IF s = <<>> THEN <<>>
  ELSE (IF Head(s) \in keep THEN <<Head(s)>> ELSE <<>>) \o SelectSeqBy(Tail(s), keep)

\* A document state the operations below transform: the control element's
\* attributes, the sibling elements, and what has been thrown so far.
Doc == [control |-> control, regions |-> regions, thrown |-> "none", writes |-> <<>>]

\* ------------------------------------------------------ Collapsible getters

\* The tabindex values of the model: an integer in decimal, or not a number.
isNaN(v) == v \notin {"0", "-1"}
parseInt(v) == IF v = "0" THEN 0 ELSE -1

\* isFocusable(element) for an element named name with the attributes c; the
\* model has no input of type hidden and no anchor.
isFocusable(name, c) ==
  IF c.tabindex # NoAttr /\ ~isNaN(c.tabindex) THEN parseInt(c.tabindex) > -1
  ELSE IF toLowerCase(name) \in {"input", "select", "textarea", "button"}
  THEN c.disabled = NoAttr
  ELSE FALSE

\* isDisabled that looks at the disabled attribute alone.
isDisabledAttributeOnly(c) ==
  c.disabled # NoAttr /\ toLowerCase(c.disabled) # "false"

isDisabled(c) ==
  \/ (c.disabled # NoAttr /\ toLowerCase(c.disabled) # "false")
  \/ (c.ariaDisabled # NoAttr /\ toLowerCase(c.ariaDisabled) # "false")

isExpanded(c) ==
  c.ariaExpanded # NoAttr /\ toLowerCase(c.ariaExpanded) = "true"

regionIds(c) ==
  IF c.hasAriaControls THEN split(c.ariaControls) ELSE <<>>

\* document.querySelector(`#${id}`) throws a SyntaxError when the selector
\* is not a valid one; '#' alone (an empty id) is not.
querySelectorThrows(id) == id = ""

\* document.querySelector(`#${id}`): the first element of the document with
\* that id, 0 for null.
querySelector(rs, id) ==
  IF \E e \in DOMAIN rs : rs[e].id = id
  THEN CHOOSE e \in DOMAIN rs : rs[e].id = id /\ \A f \in DOMAIN rs : rs[f].id = id => e <= f
  ELSE 0

regionElementsThrows(d) ==
  \E i \in 1..Len(regionIds(d.control)) : querySelectorThrows(regionIds(d.control)[i])

RECURSIVE mapFilter(_, _)
\* ids.map(id => querySelector(id)).filter(el => el != null)
mapFilter(rs, ids) ==
  IF ids = <<>> THEN <<>>
  ELSE (IF querySelector(rs, Head(ids)) # 0 THEN <<querySelector(rs, Head(ids))>> ELSE <<>>)
       \o mapFilter(rs, Tail(ids))

RECURSIVE mapUntilNull(_, _)
mapUntilNull(rs, ids) ==
  IF ids = <<>> \/ querySelector(rs, Head(ids)) = 0 THEN <<>>
  ELSE <<querySelector(rs, Head(ids))>> \o mapUntilNull(rs, Tail(ids))

\* regionElements that stops at the first id no element has.
regionElementsUntilNull(d) == mapUntilNull(d.regions, regionIds(d.control))

regionElements(d) == mapFilter(d.regions, regionIds(d.control))

\* ---------------------------------------------------- Collapsible operations

\* collapse whose loop ends at i > 0: the first region is never hidden.
collapseSkipsFirst(d) ==
  LET d1 == [d EXCEPT !.control.ariaExpanded = "false"]
  IN IF regionElementsThrows(d1) THEN [d1 EXCEPT !.thrown = "SyntaxError"]
     ELSE [d1 EXCEPT !.regions =
             [e \in DOMAIN d1.regions |->
                IF e \in Range(SubSeq(regionElements(d1), 2, Len(regionElements(d1))))
                THEN [d1.regions[e] EXCEPT !.hidden = TRUE]
                ELSE d1.regions[e]]]

Reverse(s) == [i \in 1..Len(s) |-> s[Len(s) + 1 - i]]

RECURSIVE setHidden(_, _, _)
\* The loop over the elements els, first to last: each gets, or loses, its
\* hidden attribute.
setHidden(d, els, h) ==
  IF els = <<>> THEN d
  ELSE setHidden([d EXCEPT !.regions[Head(els)].hidden = h,
                           !.writes = Append(@, Head(els))],
                 Tail(els), h)

\* The write of aria-expanded on the control element.
setAriaExpanded(d, v) ==
  [d EXCEPT !.control.ariaExpanded = v, !.writes = Append(@, 0)]

\* collapse whose loop runs from the first region to the last.
collapseInListOrder(d) ==
  LET d1 == setAriaExpanded(d, "false")
  IN IF regionElementsThrows(d1) THEN [d1 EXCEPT !.thrown = "SyntaxError"]
     ELSE setHidden(d1, regionElements(d1), TRUE)

collapse(d) ==
  LET d1 == setAriaExpanded(d, "false")
  IN IF regionElementsThrows(d1) THEN [d1 EXCEPT !.thrown = "SyntaxError"]
     ELSE setHidden(d1, Reverse(regionElements(d1)), TRUE)

\* expand that shows every sibling, listed in aria-controls or not.
expandEverySibling(d) ==
  LET d1 == setAriaExpanded(d, "true")
  IN IF regionElementsThrows(d1) THEN [d1 EXCEPT !.thrown = "SyntaxError"]
     ELSE setHidden(d1, [e \in DOMAIN d1.regions |-> e], FALSE)

expand(d) ==
  LET d1 == setAriaExpanded(d, "true")
  IN IF regionElementsThrows(d1) THEN [d1 EXCEPT !.thrown = "SyntaxError"]
     ELSE setHidden(d1, regionElements(d1), FALSE)

\* toggle that does nothing on a disabled control.
toggleUnlessDisabled(d) ==
  IF isDisabled(d.control) THEN d
  ELSE IF isExpanded(d.control) THEN collapse(d) ELSE expand(d)

toggle(d) == IF isExpanded(d.control) THEN collapse(d) ELSE expand(d)

\* ids.find(id => regionId === id): the element found, "undefined" if none.
find(ids, regionId) ==
  IF \E i \in 1..Len(ids) : ids[i] = regionId THEN regionId ELSE "undefined"

\* JavaScript's ! on what find returns: undefined and the empty string are falsy.
Falsy(v) == v = "undefined" \/ v = ""

\* addRegionId without the look-up of the id in the list.
addRegionIdAlways(d, regionId) ==
  LET ids == regionIds(d.control)
  IN [d EXCEPT !.control.hasAriaControls = TRUE,
               !.control.ariaControls = join(Append(ids, regionId))]

addRegionId(d, regionId) ==
  LET ids == regionIds(d.control)
  IN IF Falsy(find(ids, regionId))
     THEN [d EXCEPT !.control.hasAriaControls = TRUE,
                    !.control.ariaControls = join(Append(ids, regionId))]
     ELSE d

\* addRegionElement that hides the region whatever the control's state.
addRegionElementHidden(d, e) ==
  LET d1 == IF d.regions[e].id = NoAttr
            THEN [d EXCEPT !.regions[e].id = randomId(e)]
            ELSE d
      d2 == [d1 EXCEPT !.regions[e].classes = @ \cup {COLLAPSIBLE_REGION_CLASS},
                       !.regions[e].role = "region",
                       !.regions[e].hidden = TRUE]
  IN addRegionId(d2, d2.regions[e].id)

addRegionElement(d, e) ==
  LET d1 == IF d.regions[e].id = NoAttr
            THEN [d EXCEPT !.regions[e].id = randomId(e)]
            ELSE d
      d2 == [d1 EXCEPT !.regions[e].classes = @ \cup {COLLAPSIBLE_REGION_CLASS},
                       !.regions[e].role = "region",
                       !.regions[e].hidden = ~isExpanded(d1.control)]
  IN addRegionId(d2, d2.regions[e].id)

\* region.id: the id attribute's value, the empty string without one.
idOf(r) == IF r.id = NoAttr THEN "" ELSE r.id

removeRegionElement(d, e) ==
  IF idOf(d.regions[e]) # ""
  THEN LET ids == SelectSeqBy(regionIds(d.control), {idOf(d.regions[e])})
       IN [d EXCEPT !.control.hasAriaControls = TRUE,
                    !.control.ariaControls = join(ids)]
  ELSE d

\* this.keyDownHandler and this.clickHandler of instance k, as listeners: the
\* control's listener list holds a type with a callback at most once.
listener(type, k) == [type |-> type, of |-> k]

\* The listeners of the given type, of whatever instance.
listening(ls, type) == {l \in ls : l.type = type}

\* removeListeners that forgets the click listener.
removeListenersKeydownOnly(ls, k) == ls \ {listener("keydown", k)}

\* removeListeners that removes nothing.
removeListenersOfNone(ls, k) == ls

removeListeners(ls, k) == ls \ {listener("keydown", k), listener("click", k)}

addListeners(ls, k) == ls \cup {listener("keydown", k), listener("click", k)}

\* ------------------------------------------------------------ Collapsible.init

\* this.element.querySelector(`.${COLLAPSIBLE_CONTROL_CLASS}`), then the root
\* itself when it carries the class: "child", "root" or "null".
findControl(child, classes) ==
  IF child THEN "child"
  ELSE IF COLLAPSIBLE_CONTROL_CLASS \in classes THEN "root"
  ELSE "null"

\* initControl that looks for the missing control after it set the attributes.
initControlChecksLate(d, child, classes, name) ==
  LET d1 == [d EXCEPT
               !.control.ariaExpanded = IF @ = NoAttr THEN "false" ELSE @,
               !.control.role = IF toLowerCase(name) # "button" THEN "button" ELSE @,
               !.control.tabindex = IF @ = NoAttr THEN "0" ELSE @]
  IN IF findControl(child, classes) = "null" THEN [d1 EXCEPT !.thrown = "Error"] ELSE d1

initControl(d, child, classes, name) ==
  IF findControl(child, classes) = "null" THEN [d EXCEPT !.thrown = "Error"]
  ELSE [d EXCEPT
          !.control.ariaExpanded = IF @ = NoAttr THEN "false" ELSE @,
          !.control.role = IF toLowerCase(name) # "button" THEN "button" ELSE @,
          !.control.tabindex = IF @ = NoAttr THEN "0" ELSE @]

RECURSIVE scanSiblingsFirstOnly(_, _)
\* The loop with a break after the first region found.
scanSiblingsFirstOnly(rs, r) ==
  IF r \notin DOMAIN rs THEN <<>>
  ELSE IF COLLAPSIBLE_REGION_CLASS \in rs[r].classes THEN <<r>>
  ELSE IF JS_COLLAPSIBLE \in rs[r].classes THEN <<>>
  ELSE scanSiblingsFirstOnly(rs, r + 1)

RECURSIVE scanSiblings(_, _)
\* The while loop of initRegions, from sibling r on.
scanSiblings(rs, r) ==
  IF r \notin DOMAIN rs THEN <<>>
  ELSE IF COLLAPSIBLE_REGION_CLASS \in rs[r].classes THEN <<r>> \o scanSiblings(rs, r + 1)
  ELSE IF JS_COLLAPSIBLE \in rs[r].classes THEN <<>>
  ELSE scanSiblings(rs, r + 1)

RECURSIVE forEachAddRegionElement(_, _)
forEachAddRegionElement(d, els) ==
  IF els = <<>> THEN d
  ELSE forEachAddRegionElement(addRegionElement(d, Head(els)), Tail(els))

initRegions(d) ==
  IF ~d.control.hasAriaControls
  THEN forEachAddRegionElement(d, scanSiblings(d.regions, 1))
  ELSE IF regionElementsThrows(d) THEN [d EXCEPT !.thrown = "SyntaxError"]
  ELSE forEachAddRegionElement(d, regionElements(d))

\* Collapsible.init up to its listeners: initControl(); initRegions().
init(d, child, classes, name) ==
  LET d1 == initControl(d, child, classes, name)
  IN IF d1.thrown # "none" THEN d1 ELSE initRegions(d1)

\* ------------------------------------------------------------------ actions

\* new MaterialExtCollapsible(element): a new Collapsible instance runs its
\* init, which ends with removeListeners() and addListeners() for its own
\* handlers; the root is marked upgraded after it.
Construct ==
  /\ LET d == init(Doc, childControl, rootClasses, nodeName)
     IN /\ control' = d.control
        /\ regions' = d.regions
        /\ thrown' = d.thrown
        /\ IF d.thrown = "none"
           THEN /\ phase' = "upgraded"
                /\ instance' = instance + 1
                /\ listeners' =
                     addListeners(removeListeners(listeners, instance + 1), instance + 1)
                /\ rootClasses' = rootClasses \cup {IS_UPGRADED}
                /\ downgraded' = FALSE
           ELSE /\ phase' = "failed"
                /\ UNCHANGED <<listeners, instance, rootClasses, downgraded>>
  /\ last' = [op |-> "upgrade", arg |-> 0]
  /\ returned' = <<>>
  /\ writes' = <<>>
  /\ UNCHANGED <<childControl, nodeName>>
  /\ UNCHANGED unrelated

\* The component handler upgrades the root.
Upgrade == phase = "markup" /\ Construct

\* The component handler upgrades the root again after it has downgraded it.
Reupgrade ==
  /\ phase = "upgraded"
  /\ downgraded
  /\ instance < MaxInstances
  /\ Construct

\* init() runs again on the widget's Collapsible instance.
Reinit ==
  /\ phase = "upgraded"
  /\ LET d == init(Doc, childControl, rootClasses, nodeName)
     IN /\ control' = d.control
        /\ regions' = d.regions
        /\ thrown' = d.thrown
        /\ IF d.thrown = "none"
           THEN /\ listeners' = addListeners(removeListeners(listeners, instance), instance)
                /\ downgraded' = FALSE
           ELSE UNCHANGED <<listeners, downgraded>>
  /\ last' = [op |-> "init", arg |-> 0]
  /\ returned' = <<>>
  /\ writes' = <<>>
  /\ UNCHANGED <<phase, childControl, rootClasses, nodeName, instance>>
  /\ UNCHANGED unrelated

\* One public method or handler that transforms the document into d and
\* returns the elements ret.
Return(d, op, arg, ret) ==
  /\ control' = d.control
  /\ regions' = d.regions
  /\ thrown' = d.thrown
  /\ last' = [op |-> op, arg |-> arg]
  /\ returned' = ret
  /\ writes' = d.writes
  /\ UNCHANGED <<phase, childControl, rootClasses, nodeName, listeners, instance, downgraded>>
  /\ UNCHANGED unrelated

\* One public method or handler that transforms the document into d.
Apply(d, op, arg) == Return(d, op, arg, <<>>)

Expand == phase = "upgraded" /\ Apply(expand(Doc), "expand", 0)

Collapse == phase = "upgraded" /\ Apply(collapse(Doc), "collapse", 0)

Toggle == phase = "upgraded" /\ Apply(toggle(Doc), "toggle", 0)

AddRegionElements(e) ==
  phase = "upgraded" /\ Apply(addRegionElement(Doc, e), "addRegionElements", e)

RemoveRegionElements(e) ==
  phase = "upgraded" /\ Apply(removeRegionElement(Doc, e), "removeRegionElements", e)

GetRegionElements ==
  /\ phase = "upgraded"
  /\ IF regionElementsThrows(Doc)
     THEN Apply([Doc EXCEPT !.thrown = "SyntaxError"], "getRegionElements", 0)
     ELSE Return(Doc, "getRegionElements", 0, regionElements(Doc))

GetControlElement == phase = "upgraded" /\ Apply(Doc, "getControlElement", 0)

clickHandler(d) == IF ~isDisabled(d.control) THEN toggle(d) ELSE d

RECURSIVE dispatchClick(_, _)
\* A click event on the control: the click handler of each of the n click
\* listeners runs.
dispatchClick(d, n) == IF n = 0 THEN d ELSE dispatchClick(clickHandler(d), n - 1)

\* A click event reaches the control element.
Click ==
  /\ phase = "upgraded"
  /\ Apply(dispatchClick(Doc, Cardinality(listening(listeners, "click"))), "click", 0)

\* keyDownHandler dispatches a click on the event's target, which bubbles to
\* the control's click listeners.
keyDownHandler(d, keyCode, ls) ==
  IF keyCode = VK_ENTER \/ keyCode = VK_SPACE
  THEN dispatchClick(d, Cardinality(listening(ls, "click")))
  ELSE d

RECURSIVE dispatchKeyDown(_, _, _, _)
\* A keydown event on the control: the keydown handler of each of the n
\* keydown listeners runs.
dispatchKeyDown(d, keyCode, ls, n) ==
  IF n = 0 THEN d ELSE dispatchKeyDown(keyDownHandler(d, keyCode, ls), keyCode, ls, n - 1)

\* keyDownHandler does not call preventDefault, so the activation behaviour
\* of an enabled button element follows the handler: Enter fires a click on
\* the button (Space fires it on keyup, which is not part of the keydown).
activationBehaviour(name, c, keyCode) ==
  toLowerCase(name) = "button" /\ c.disabled = NoAttr /\ keyCode = VK_ENTER

\* A keydown event reaches the control element; the keydown listeners run,
\* and the element's activation behaviour after them.
KeyDown(keyCode) ==
  /\ phase = "upgraded"
  /\ LET d1 == dispatchKeyDown(Doc, keyCode, listeners,
                               Cardinality(listening(listeners, "keydown")))
         d2 == IF activationBehaviour(nodeName, control, keyCode)
               THEN dispatchClick(d1, Cardinality(listening(listeners, "click")))
               ELSE d1
     IN Apply(d2, keyCode, 0)

\* The component handler dispatches mdl-componentdowngraded on the root:
\* mdlDowngrade_ calls downgrade(), which removes the two listeners. The
\* listener for the event itself stays on the root.
Downgrade ==
  /\ phase = "upgraded"
  /\ listeners' = removeListeners(listeners, instance)
  /\ downgraded' = TRUE
  /\ thrown' = "none"
  /\ last' = [op |-> "downgrade", arg |-> 0]
  /\ returned' = <<>>
  /\ writes' = <<>>
  /\ UNCHANGED <<phase, childControl, rootClasses, nodeName, control, regions, instance>>
  /\ UNCHANGED menuVars

\* The page sets or removes the control's disabled or aria-disabled attribute.
DisabledValues == {NoAttr, "true", "false", "FALSE"}

SetDisabled(v) ==
  /\ phase = "upgraded"
  /\ control.disabled # v
  /\ control' = [control EXCEPT !.disabled = v]
  /\ thrown' = "none"
  /\ last' = [op |-> "setDisabled", arg |-> 0]
  /\ returned' = <<>>
  /\ writes' = <<>>
  /\ UNCHANGED <<phase, childControl, rootClasses, nodeName, regions, listeners, instance,
                 downgraded>>
  /\ UNCHANGED unrelated

SetAriaDisabled(v) ==
  /\ phase = "upgraded"
  /\ control.ariaDisabled # v
  /\ control' = [control EXCEPT !.ariaDisabled = v]
  /\ thrown' = "none"
  /\ last' = [op |-> "setAriaDisabled", arg |-> 0]
  /\ returned' = <<>>
  /\ writes' = <<>>
  /\ UNCHANGED <<phase, childControl, rootClasses, nodeName, regions, listeners, instance,
                 downgraded>>
  /\ UNCHANGED unrelated

\* ------------------------------------------------------------ initial markup

RECURSIVE UniqueSeqs(_, _)
\* The sequences of at most n distinct elements of S.
UniqueSeqs(S, n) ==
  IF n = 0 THEN {<<>>}
  ELSE {<<>>} \cup UNION {{<<x>> \o s : s \in UniqueSeqs(S \ {x}, n - 1)} : x \in S}

ExpandedValues == {NoAttr, "true", "false", "TRUE", "MAYBE"}

\* ------------------------------------------------------------- menu button

\* The menu button's state: the button's aria-expanded, the menu's hidden
\* attribute, the items carrying aria-selected="true", the element that has
\* the focus, and what the last input made the widget send: the number of
\* clicks it fired on the menu, and the item that the "select" event it
\* dispatched on the button carries as detail.source (0 when it sent none).
Items == 1..NumItems

FocusValues ==
  {[on |-> "body", item |-> 0], [on |-> "button", item |-> 0]}
    \cup {[on |-> "item", item |-> i] : i \in Items}

NoEvents(m) == [m EXCEPT !.clicks = 0, !.select = 0]

\* selectedMenuItem(): the item marked aria-selected="true", 0 for null.
selectedMenuItem(m) ==
  IF m.selected = {} THEN 0
  ELSE CHOOSE i \in m.selected : \A j \in m.selected : i <= j

\* The item that an opening in the given mode moves the focus to.
itemToFocusAlwaysFirst(m, mode) == 1

itemToFocus(m, mode) ==
  CASE mode = "first" -> 1
    [] mode = "last" -> NumItems
    [] OTHER -> IF selectedMenuItem(m) # 0 THEN selectedMenuItem(m) ELSE 1

openMenu(m, mode) ==
  [m EXCEPT !.ariaExpanded = "true", !.hidden = FALSE,
            !.focus = [on |-> "item", item |-> itemToFocus(m, mode)]]

\* closeMenu that leaves the menu shown.
closeMenuKeepsMenu(m, forceFocus) ==
  [m EXCEPT !.ariaExpanded = "false",
            !.focus = IF forceFocus THEN [on |-> "button", item |-> 0] ELSE @]

\* closeMenu that never moves the focus.
closeMenuKeepsFocus(m, forceFocus) == [m EXCEPT !.ariaExpanded = "false", !.hidden = TRUE]

\* Closing, with the focus returned to the button when forceFocus is set.
closeMenu(m, forceFocus) ==
  [m EXCEPT !.ariaExpanded = "false", !.hidden = TRUE,
            !.focus = IF forceFocus THEN [on |-> "button", item |-> 0] ELSE @]

isOpen(m) == m.ariaExpanded = "true"

\* A click on the button toggles the menu.
buttonClick(m) == IF isOpen(m) THEN closeMenu(m, FALSE) ELSE openMenu(m, "selected")

buttonKeyDown(m, keyCode) ==
  CASE keyCode \in {VK_ENTER, VK_SPACE} -> buttonClick(m)
    [] keyCode = VK_ARROW_DOWN -> openMenu(m, "first")
    [] keyCode = VK_ARROW_UP -> openMenu(m, "last")
    [] keyCode = VK_TAB -> closeMenu(m, FALSE)
    [] keyCode = VK_ESC -> closeMenu(m, TRUE)
    [] OTHER -> m

\* nextItem that stops at the last item.
nextItemStops(i) == IF i = NumItems THEN i ELSE i + 1

nextItem(i) == IF i = NumItems THEN 1 ELSE i + 1

previousItem(i) == IF i = 1 THEN NumItems ELSE i - 1

\* Marking that leaves the marker of the item selected before.
markSelectedKeepsPrior(m, i) == [m EXCEPT !.selected = @ \cup {i}]

\* The item becomes the one selected item.
markSelected(m, i) == [m EXCEPT !.selected = {i}]

\* Activation that tells the button nothing.
activateSilently(m, i, byKey) ==
  closeMenu([markSelected(m, i) EXCEPT !.clicks = IF byKey THEN @ + 1 ELSE @], FALSE)

\* The activation of item i: mark it, fire a click on the menu when a key
\* activated it, dispatch "select" on the button, close the menu.
activate(m, i, byKey) ==
  closeMenu([markSelected(m, i) EXCEPT !.clicks = IF byKey THEN @ + 1 ELSE @,
                                       !.select = i],
            FALSE)

itemKeyDown(m, i, keyCode) ==
  CASE keyCode \in {VK_ARROW_DOWN, VK_ARROW_RIGHT} ->
         [m EXCEPT !.focus = [on |-> "item", item |-> nextItem(i)]]
    [] keyCode \in {VK_ARROW_UP, VK_ARROW_LEFT} ->
         [m EXCEPT !.focus = [on |-> "item", item |-> previousItem(i)]]
    [] keyCode \in {VK_ENTER, VK_SPACE} -> activate(m, i, TRUE)
    [] keyCode = VK_TAB -> closeMenu(m, FALSE)
    [] keyCode = VK_ESC -> closeMenu(m, TRUE)
    [] OTHER -> m

itemClick(m, i) == activate(m, i, FALSE)

\* One input to the menu button that leaves the widget as m.
Input(m, op, item, result) ==
  /\ menu' = m
  /\ menuLast' = [op |-> op, item |-> item, result |-> result]
  /\ UNCHANGED collapsibleVars

ButtonClick == Input(buttonClick(NoEvents(menu)), "click", 0, 0)

ButtonKeyDown(keyCode) == Input(buttonKeyDown(NoEvents(menu), keyCode), keyCode, 0, 0)

\* A key is pressed on the item that has the focus, in the open menu.
ItemKeyDown(keyCode) ==
  /\ ~menu.hidden
  /\ menu.focus.on = "item"
  /\ Input(itemKeyDown(NoEvents(menu), menu.focus.item, keyCode), keyCode, menu.focus.item, 0)

\* An item of the open menu is clicked.
ItemClick(i) ==
  /\ ~menu.hidden
  /\ Input(itemClick(NoEvents(menu), i), "click", i, 0)

OpenMenu(mode) == Input(openMenu(NoEvents(menu), mode), "openMenu", 0, 0)

CloseMenu == Input(closeMenu(NoEvents(menu), FALSE), "closeMenu", 0, 0)

SelectedMenuItem ==
  Input(NoEvents(menu), "selectedMenuItem", 0, selectedMenuItem(menu))

\* The menu button after its construction: the menu closed, at most one item
\* marked selected by the markup.
MenuAfterConstruction(sel) ==
  [ariaExpanded |-> "false", hidden |-> TRUE, selected |-> sel,
   focus |-> [on |-> "body", item |-> 0], clicks |-> 0, select |-> 0]

NoMenuInput == menuLast = [op |-> "none", item |-> 0, result |-> 0]

\* A page without a menu button that takes input.
NoMenu == menu = MenuAfterConstruction({}) /\ NoMenuInput

\* The aria-controls values of the markup: an id list without repetition, or
\* the empty string.
ControlsValues ==
  (UniqueSeqs({MarkupId(e) : e \in Elems}, MaxInitControls) \ {<<>>}) \cup {<<"">>}

ControlAttrs(ae, has, ac) ==
  [ariaExpanded |-> ae, hasAriaControls |-> has, ariaControls |-> ac,
   disabled |-> NoAttr, ariaDisabled |-> NoAttr, role |-> NoAttr, tabindex |-> NoAttr]

\* The siblings: element e carries its id or none, the classes cs[e], and all
\* of them are hidden, or none is.
Siblings(ids, cs, h) ==
  [e \in Elems |-> [id |-> IF e \in ids THEN MarkupId(e) ELSE NoAttr,
                    classes |-> cs[e], role |-> NoAttr, hidden |-> h]]

\* The class sets a sibling may carry: any, and those of a page with one widget.
AnyClasses == SUBSET {COLLAPSIBLE_REGION_CLASS, JS_COLLAPSIBLE}
RegionClasses == SUBSET {COLLAPSIBLE_REGION_CLASS}

\* Markup whose control has no aria-controls: the siblings' classes decide
\* the regions.
MarkupWithoutControls(SiblingClasses) ==
  /\ \E ae \in ExpandedValues : control = ControlAttrs(ae, FALSE, <<>>)
  /\ \E ids \in SUBSET Elems, cs \in [Elems -> SiblingClasses], h \in BOOLEAN :
       regions = Siblings(ids, cs, h)

\* Markup whose control names its regions in aria-controls.
MarkupWithControls(SiblingClasses) ==
  /\ \E ae \in ExpandedValues, ac \in ControlsValues : control = ControlAttrs(ae, TRUE, ac)
  /\ \E ids \in SUBSET Elems, c \in SiblingClasses, h \in BOOLEAN :
       regions = Siblings(ids, [e \in Elems |-> c], h)

NotUpgraded ==
  /\ phase = "markup"
  /\ listeners = {}
  /\ instance = 0
  /\ thrown = "none"
  /\ last = [op |-> "none", arg |-> 0]
  /\ returned = <<>>
  /\ writes = <<>>
  /\ downgraded = FALSE

\* Any markup: the control may be a descendant of the root, the root, or missing.
InitLifecycle ==
  /\ NotUpgraded
  /\ childControl \in BOOLEAN
  /\ rootClasses \in SUBSET {COLLAPSIBLE_CONTROL_CLASS}
  /\ nodeName \in {"BUTTON", "DIV"}
  /\ (MarkupWithoutControls(AnyClasses) \/ MarkupWithControls(AnyClasses))
  /\ NoMenu

NextLifecycle == Upgrade \/ Expand \/ Collapse \/ Toggle

SpecLifecycle == InitLifecycle /\ [][NextLifecycle]_vars

\* The markup of a page with one widget, whose control is a descendant of the
\* root: no sibling starts another collapsible.
Init ==
  /\ NotUpgraded
  /\ childControl = TRUE
  /\ rootClasses = {}
  /\ nodeName = "DIV"
  /\ (MarkupWithoutControls(RegionClasses) \/ MarkupWithControls({{}}))
  /\ NoMenu

Next ==
  \/ Upgrade
  \/ Expand
  \/ Collapse
  \/ Toggle
  \/ \E e \in Elems : AddRegionElements(e)
  \/ \E e \in Elems : RemoveRegionElements(e)
  \/ GetRegionElements
  \/ GetControlElement
  \/ Click
  \/ \E k \in KeyCodes : KeyDown(k)

Spec == Init /\ [][Next]_vars

\* The widget under events and toggles, before and after its downgrade.
NextTeardown ==
  \/ Upgrade
  \/ Toggle
  \/ Click
  \/ \E k \in KeyCodes : KeyDown(k)
  \/ Downgrade

SpecTeardown == Init /\ [][NextTeardown]_vars

\* The widget under events and toggles while its instance is initialized
\* again, and while the root is downgraded and upgraded again.
NextReinit ==
  \/ Upgrade
  \/ Reinit
  \/ Downgrade
  \/ Reupgrade
  \/ Toggle
  \/ Click
  \/ \E k \in KeyCodes : KeyDown(k)

SpecReinit == Init /\ [][NextReinit]_vars

\* The widget under expand, collapse, toggle and the adding of regions.
NextAdd ==
  \/ Upgrade
  \/ Expand
  \/ Collapse
  \/ Toggle
  \/ \E e \in Elems : AddRegionElements(e)

SpecAdd == Init /\ [][NextAdd]_vars

\* Markup whose control is a button or another element, with or without a
\* tabindex and a disabled attribute; every sibling is a region.
TabindexValues == {NoAttr, "0", "-1", "x"}

MarkupOfControl ==
  /\ \E ae \in {NoAttr, "true"}, t \in TabindexValues, dv \in {NoAttr, "true"} :
       control = [ControlAttrs(ae, FALSE, <<>>) EXCEPT !.tabindex = t, !.disabled = dv]
  /\ \E ids \in SUBSET Elems, h \in BOOLEAN :
       regions = Siblings(ids, [e \in Elems |-> {COLLAPSIBLE_REGION_CLASS}], h)

InitControl ==
  /\ NotUpgraded
  /\ childControl = TRUE
  /\ rootClasses = {}
  /\ nodeName \in {"BUTTON", "DIV"}
  /\ MarkupOfControl
  /\ NoMenu

NextControl ==
  \/ Upgrade
  \/ Click
  \/ \E k \in KeyCodes : KeyDown(k)

\* The widget on a control of either kind, under clicks and key presses.
SpecControl == InitControl /\ [][NextControl]_vars

\* A page whose menu button takes input; its collapsible is not upgraded.
MenuKeyCodes ==
  {VK_ENTER, VK_SPACE, VK_TAB, VK_ESC, VK_ARROW_LEFT, VK_ARROW_UP, VK_ARROW_RIGHT,
   VK_ARROW_DOWN}

InitMenu ==
  /\ NotUpgraded
  /\ childControl = TRUE
  /\ rootClasses = {}
  /\ nodeName = "DIV"
  /\ control = ControlAttrs(NoAttr, FALSE, <<>>)
  /\ regions = Siblings({}, [e \in Elems |-> {}], FALSE)
  /\ \E sel \in SUBSET Items : Cardinality(sel) <= 1 /\ menu = MenuAfterConstruction(sel)
  /\ NoMenuInput

NextMenu ==
  \/ ButtonClick
  \/ \E k \in MenuKeyCodes : ButtonKeyDown(k)
  \/ \E k \in MenuKeyCodes : ItemKeyDown(k)
  \/ \E i \in Items : ItemClick(i)
  \/ \E mode \in {"first", "last", "selected"} : OpenMenu(mode)
  \/ CloseMenu
  \/ SelectedMenuItem

SpecMenu == InitMenu /\ [][NextMenu]_vars

\* The widget while the page enables and disables its control.
NextDisabled ==
  \/ Upgrade
  \/ Expand
  \/ Collapse
  \/ Toggle
  \/ Click
  \/ \E k \in KeyCodes : KeyDown(k)
  \/ \E v \in DisabledValues : SetDisabled(v)
  \/ \E v \in DisabledValues : SetAriaDisabled(v)

SpecDisabled == Init /\ [][NextDisabled]_vars

\* ------------------------------------------------------------------- claims

\* The siblings whose id is one of the ids in the control's aria-controls.
Listed(c, rs) == {e \in DOMAIN rs : rs[e].id # NoAttr /\ rs[e].id \in Range(regionIds(c))}

\* Whether the step taken is a call of the named operation.
Called(op) == phase' = "upgraded" /\ last'.op = op

\* C1: a call of expand() leaves aria-expanded "true", collapse() leaves it
\* "false", toggle() leaves it "false" when the control was expanded and
\* "true" otherwise; after each of them every sibling whose id is listed
\* in aria-controls is hidden if and only if aria-expanded is "false"; and
\* expand() in a state whose aria-expanded is "true" changes no attribute.
C1_LastCallDecides ==
  [][(phase = "upgraded" /\ (Called("expand") \/ Called("collapse") \/ Called("toggle"))) =>
       /\ Called("expand") => control'.ariaExpanded = "true"
       /\ Called("collapse") => control'.ariaExpanded = "false"
       /\ Called("toggle") =>
            control'.ariaExpanded = (IF isExpanded(control) THEN "false" ELSE "true")
       /\ \A e \in Listed(control', regions') :
            regions'[e].hidden <=> (control'.ariaExpanded = "false")
       /\ (Called("expand") /\ control.ariaExpanded = "true") =>
            (control' = control /\ regions' = regions)]_vars

\* C1 witness: toggle() has collapsed a widget with two listed regions.
C1_Witness ==
  /\ phase = "upgraded"
  /\ last.op = "toggle"
  /\ control.ariaExpanded = "false"
  /\ Cardinality(Listed(control, regions)) >= 2
  /\ \A e \in Listed(control, regions) : regions[e].hidden

\* The list ids without the id x, the others in their order.
Without(ids, x) == SelectSeqBy(ids, Range(ids) \ {x})

\* C2: removeRegionElements(region) with a region whose id is in the
\* control's aria-controls leaves the list without that id and with every
\* other id, in the same order.
C2_RemoveListed ==
  [][\A e \in Elems :
       (Called("removeRegionElements") /\ last'.arg = e /\ e \in Listed(control, regions)) =>
         regionIds(control') = Without(regionIds(control), regions[e].id)]_vars

\* C3: removeRegionElements(region) with a region whose id is not in the
\* control's aria-controls changes neither the control's attributes (the
\* presence and the value of aria-controls, aria-expanded) nor any
\* sibling's hidden state.
C3_RemoveUnlistedIsNoOp ==
  [][\A e \in Elems :
       (Called("removeRegionElements") /\ last'.arg = e /\ e \notin Listed(control, regions)) =>
         (control' = control /\ regions' = regions)]_vars

NoDuplicates(ids) == \A i, j \in 1..Len(ids) : ids[i] = ids[j] => i = j

\* C4: aria-controls never holds an id twice; addRegionElements(region)
\* with a region whose id is in the list leaves aria-controls as it is, and
\* with any other region appends the region's id after the ids of the list.
C4_NoDuplicateIds ==
  /\ []NoDuplicates(regionIds(control))
  /\ [][\A e \in Elems :
          (Called("addRegionElements") /\ last'.arg = e) =>
            IF e \in Listed(control, regions)
            THEN /\ control'.hasAriaControls = control.hasAriaControls
                 /\ control'.ariaControls = control.ariaControls
            ELSE /\ regions'[e].id # NoAttr
                 /\ regionIds(control') = Append(regionIds(control), regions'[e].id)]_vars

\* C4 witness: a region already listed was added again, next to another one.
C4_Witness ==
  /\ last.op = "addRegionElements"
  /\ Len(regionIds(control)) = 2
  /\ regions[last.arg].id = regionIds(control)[1]
  /\ Listed(control, regions) = Elems

\* A click, or an Enter or Space keydown, on the control.
Activated == last'.op \in {"click", VK_ENTER, VK_SPACE}

\* The control carries disabled or aria-disabled with a value other than
\* the string "false".
DisabledLiterally(c) ==
  \/ (c.disabled # NoAttr /\ c.disabled # "false")
  \/ (c.ariaDisabled # NoAttr /\ c.ariaDisabled # "false")

\* The same, the value compared without regard to case.
DisabledIgnoringCase(c) ==
  \/ c.disabled \notin {NoAttr, "false", "FALSE"}
  \/ c.ariaDisabled \notin {NoAttr, "false", "FALSE"}

SameState ==
  /\ control'.ariaExpanded = control.ariaExpanded
  /\ \A e \in Elems : regions'[e].hidden = regions[e].hidden

Toggled == control'.ariaExpanded = (IF isExpanded(control) THEN "false" ELSE "true")

\* C5 as stated: while disabled or aria-disabled has a value that is not
\* the string "false", a click, Enter or Space changes neither
\* aria-expanded nor a hidden attribute; without such an attribute a click
\* toggles aria-expanded.
C5_DisabledLiterally ==
  [][Activated =>
       /\ DisabledLiterally(control) => SameState
       /\ (~DisabledLiterally(control) /\ last'.op = "click") => Toggled]_vars

\* C5 amended: the same with the attribute values compared without regard
\* to case: "FALSE" enables the control as "false" does.
C5_DisabledIgnoringCase ==
  [][Activated =>
       /\ DisabledIgnoringCase(control) => SameState
       /\ (~DisabledIgnoringCase(control) /\ last'.op = "click") => Toggled]_vars

\* C5 witness: a click on a control whose aria-disabled is "true" left the
\* widget expanded, its region visible.
C5_Witness ==
  /\ last.op = "click"
  /\ control.ariaDisabled = "true"
  /\ control.disabled = "false"
  /\ control.ariaExpanded = "true"
  /\ \E e \in Listed(control, regions) : ~regions[e].hidden

\* C6: no public operation of an upgraded widget throws.
C6_NothingThrows == phase = "upgraded" => thrown = "none"

\* The siblings that carry the region class and precede the first sibling
\* that carries the collapsible class.
BeforeNextCollapsible(rs) ==
  {e \in DOMAIN rs :
     /\ COLLAPSIBLE_REGION_CLASS \in rs[e].classes
     /\ \A f \in DOMAIN rs : f <= e => JS_COLLAPSIBLE \notin rs[f].classes}

\* The place of id x in the list ids, 0 when it is not in it.
IndexOf(ids, x) ==
  IF \E i \in 1..Len(ids) : ids[i] = x THEN CHOOSE i \in 1..Len(ids) : ids[i] = x ELSE 0

\* An upgrade of markup whose control has no aria-controls.
UpgradedWithoutControls == phase = "markup" /\ Called("upgrade") /\ ~control.hasAriaControls

\* C7: when the control has no aria-controls, after the upgrade every
\* sibling that carries the region class and precedes the next collapsible
\* has an id that is in aria-controls, the ids in document order, has
\* role=region, and is hidden when aria-expanded was absent (and so is
\* "false" now).
C7_SiblingsCollected ==
  [][UpgradedWithoutControls =>
       /\ \A e \in BeforeNextCollapsible(regions) :
            /\ regions'[e].id # NoAttr
            /\ IndexOf(regionIds(control'), regions'[e].id) > 0
            /\ regions'[e].role = "region"
            /\ control.ariaExpanded = NoAttr =>
                 (control'.ariaExpanded = "false" /\ regions'[e].hidden)
       /\ \A e, f \in BeforeNextCollapsible(regions) :
            e < f => IndexOf(regionIds(control'), regions'[e].id)
                       < IndexOf(regionIds(control'), regions'[f].id)]_vars

\* C7 witness: two siblings, the first without an id of its own, were
\* collected and hidden by the upgrade.
C7_Witness ==
  /\ last.op = "upgrade"
  /\ regionIds(control) = <<randomId(1), MarkupId(2)>>
  /\ control.ariaExpanded = "false"
  /\ \A e \in {1, 2} : regions[e].hidden /\ regions[e].role = "region"

\* C8: when the control has no aria-controls, no sibling from the first one
\* that carries the collapsible class on is in aria-controls after the
\* upgrade.
C8_ScanStopsAtCollapsible ==
  [][UpgradedWithoutControls =>
       \A e \in Elems :
         (\E f \in Elems : f <= e /\ JS_COLLAPSIBLE \in regions[f].classes) =>
           e \notin Listed(control', regions')]_vars

\* C9: when neither a descendant of the root nor the root carries the
\* control class, the upgrade throws, attaches no listener, changes no
\* attribute and does not mark the root as upgraded.
C9_MissingControlAborts ==
  [][(phase = "markup" /\ last'.op = "upgrade" /\ ~childControl
        /\ COLLAPSIBLE_CONTROL_CLASS \notin rootClasses) =>
       /\ thrown' = "Error"
       /\ phase' = "failed"
       /\ listeners' = {}
       /\ control' = control
       /\ regions' = regions
       /\ IS_UPGRADED \notin rootClasses']_vars

\* C9 witness: the construction has thrown its configuration error.
C9_Witness ==
  /\ phase = "failed"
  /\ thrown = "Error"
  /\ ~childControl
  /\ COLLAPSIBLE_CONTROL_CLASS \notin rootClasses

\* C10: after the upgrade the control's aria-expanded is "true" or "false".
C10_ExpandedIsValid == phase = "upgraded" => control.ariaExpanded \in {"true", "false"}

\* The ids in the control's aria-controls that no element of the document has.
StaleIds(c, rs) == {id \in Range(regionIds(c)) : id # "" /\ querySelector(rs, id) = 0}

\* The sequence els holds exactly the listed siblings, in the order of their
\* ids in aria-controls.
ResolvedInOrder(els, c, rs) ==
  /\ Range(els) = Listed(c, rs)
  /\ Len(els) = Cardinality(Listed(c, rs))
  /\ \A i, j \in 1..Len(els) :
       i < j => IndexOf(regionIds(c), rs[els[i]].id) < IndexOf(regionIds(c), rs[els[j]].id)

\* C11: while aria-controls holds an id that no element has,
\* getRegionElements(), expand(), collapse() and toggle() throw nothing and
\* leave aria-controls, the id included, as it was; getRegionElements()
\* returns the siblings whose ids resolve, in list order, and changes
\* nothing; expand() shows, collapse() hides and toggle() flips every
\* sibling whose id resolves.
C11_StaleIdsSkipped ==
  [][(phase = "upgraded" /\ StaleIds(control, regions) # {}
        /\ (Called("getRegionElements") \/ Called("expand") \/ Called("collapse")
              \/ Called("toggle"))) =>
       /\ thrown' = "none"
       /\ regionIds(control') = regionIds(control)
       /\ StaleIds(control', regions') = StaleIds(control, regions)
       /\ Called("getRegionElements") =>
            (ResolvedInOrder(returned', control, regions)
               /\ control' = control /\ regions' = regions)
       /\ Called("expand") =>
            (control'.ariaExpanded = "true"
               /\ \A e \in Listed(control, regions) : ~regions'[e].hidden)
       /\ Called("collapse") =>
            (control'.ariaExpanded = "false"
               /\ \A e \in Listed(control, regions) : regions'[e].hidden)
       /\ Called("toggle") =>
            \A e \in Listed(control, regions) : regions'[e].hidden <=> isExpanded(control)]_vars

\* C11 witness: getRegionElements() has returned the one sibling that
\* resolves of a list that holds a stale id as well.
C11_Witness ==
  /\ phase = "upgraded"
  /\ last.op = "getRegionElements"
  /\ StaleIds(control, regions) # {}
  /\ Len(returned) = 1
  /\ thrown = "none"

\* A click or a keydown of any key on the control.
ControlEvent == last'.op \in {"click"} \cup KeyCodes

\* C12: a downgrade throws nothing and leaves every attribute of the
\* control and of the siblings as it was, whether or not listeners were
\* attached when it ran; once the widget has been downgraded, no click and
\* no keydown on the control changes an attribute of the control or of a
\* sibling, and a further downgrade changes nothing.
C12_DowngradeDetaches ==
  [][/\ Called("downgrade") =>
          (thrown' = "none" /\ control' = control /\ regions' = regions
             /\ rootClasses' = rootClasses)
     /\ (downgraded /\ Called("downgrade")) => listeners' = listeners
     /\ (downgraded /\ ControlEvent) =>
          (thrown' = "none" /\ control' = control /\ regions' = regions)]_vars

\* C12 witness: an Enter keydown has reached the control of a downgraded
\* widget that has a listed region.
C12_Witness ==
  /\ downgraded
  /\ last.op = VK_ENTER
  /\ listeners = {}
  /\ Listed(control, regions) # {}

\* C13: on a control that is not disabled and has its listeners, a keydown
\* of Enter or of Space has the effect of one click, one toggle of
\* aria-expanded and of the listed regions, on a button element as on any
\* other element; a keydown of another key changes nothing.
C13_KeyIsOneToggle ==
  [][(phase = "upgraded" /\ ~downgraded /\ ~DisabledIgnoringCase(control)) =>
       /\ last'.op \in {VK_ENTER, VK_SPACE} =>
            (Toggled /\ regions' = clickHandler(Doc).regions)
       /\ last'.op \in KeyCodes \ {VK_ENTER, VK_SPACE} =>
            (control' = control /\ regions' = regions)]_vars

\* C14: addRegionElements(region) leaves the region with an id (its own, or
\* a generated one when it had none), with role=region, hidden exactly when
\* the control is not expanded, and with its id in aria-controls; and under
\* any interleaving of it with expand(), collapse() and toggle(), from any
\* markup, one with aria-expanded="true" included, every sibling listed in
\* aria-controls is hidden exactly when the control is not expanded.
C14_AddedRegionFollowsControl ==
  /\ [](phase = "upgraded" =>
         \A e \in Listed(control, regions) : regions[e].hidden <=> ~isExpanded(control))
  /\ [][\A e \in Elems :
          (Called("addRegionElements") /\ last'.arg = e) =>
            /\ thrown' = "none"
            /\ regions'[e].id # NoAttr
            /\ regions[e].id # NoAttr => regions'[e].id = regions[e].id
            /\ regions'[e].role = "region"
            /\ regions'[e].hidden <=> ~isExpanded(control')
            /\ isExpanded(control') <=> isExpanded(control)
            /\ e \in Listed(control', regions')]_vars

\* C14 witness: a sibling without an id was added to an expanded widget that
\* had a listed region already, and both are shown.
C14_Witness ==
  /\ phase = "upgraded"
  /\ last.op = "addRegionElements"
  /\ regions[last.arg].id = randomId(last.arg)
  /\ isExpanded(control)
  /\ Cardinality(Listed(control, regions)) >= 2
  /\ \A e \in Listed(control, regions) : ~regions[e].hidden

\* C15: the upgrade sets tabindex to "0" exactly when the control was not
\* focusable, and leaves the tabindex of a focusable control as it was; the
\* control is focusable after the upgrade, whatever its markup.
C15_FocusableAfterInit ==
  [][(phase = "markup" /\ Called("upgrade")) =>
       /\ isFocusable(nodeName, control')
       /\ control'.tabindex =
            (IF isFocusable(nodeName, control) THEN control.tabindex ELSE "0")]_vars

\* The input just taken by the menu button: on the button, or on an item.
OnButton(ops) == menuLast'.op \in ops /\ menuLast'.item = 0
OnItem(ops) == menuLast'.op \in ops /\ menuLast'.item \in Items

\* The input just taken activated an item, by a key or by a click.
ItemActivated == OnItem({VK_ENTER, VK_SPACE, "click"})

\* The input just taken asks for the menu to open, or to close.
Opening ==
  \/ menuLast'.op = "openMenu"
  \/ OnButton({VK_ARROW_DOWN, VK_ARROW_UP})
  \/ (OnButton({"click", VK_ENTER, VK_SPACE}) /\ ~isOpen(menu))

Closing ==
  \/ menuLast'.op = "closeMenu"
  \/ menuLast'.op \in {VK_TAB, VK_ESC}
  \/ ItemActivated
  \/ (OnButton({"click", VK_ENTER, VK_SPACE}) /\ isOpen(menu))

\* C16: the button's aria-expanded is "true" exactly when the menu has no
\* hidden attribute; every opening leaves aria-expanded "true" and the menu
\* shown, and every closing (closeMenu, Tab, Escape, the activation of an
\* item, a click on the button of an open menu) leaves aria-expanded
\* "false" and the menu hidden.
C16_ExpandedIffShown ==
  /\ [](menu.ariaExpanded = "true" <=> ~menu.hidden)
  /\ [][/\ Opening => (menu'.ariaExpanded = "true" /\ ~menu'.hidden)
        /\ Closing => (menu'.ariaExpanded = "false" /\ menu'.hidden)]_vars

\* C16 witness: Escape on an item has closed the menu that was open.
C16_Witness ==
  /\ menuLast.op = VK_ESC
  /\ menuLast.item \in Items
  /\ menu.ariaExpanded = "false"
  /\ menu.hidden

\* C17: at most one item is marked selected; the activation of an item
\* leaves that item as the only marked one; selectedMenuItem() returns the
\* marked item, or null when no item is marked.
C17_OneSelectedItem ==
  /\ [](Cardinality(menu.selected) <= 1)
  /\ [](menuLast.op = "selectedMenuItem" =>
          IF menu.selected = {} THEN menuLast.result = 0
          ELSE menu.selected = {menuLast.result})
  /\ [][ItemActivated => menu'.selected = {menuLast'.item}]_vars

\* C17 witness: selectedMenuItem() has returned the second item, which an
\* activation marked in place of the first.
C17_Witness ==
  /\ menuLast.op = "selectedMenuItem"
  /\ menuLast.result = 2
  /\ menu.selected = {2}

\* C18: the activation of an item by Enter, Space or a click leaves the
\* item marked selected and the menu closed, and dispatches "select" on the
\* button with the item as detail.source; an activation by a key fires one
\* click on the menu.
C18_ActivationNotifies ==
  [][ItemActivated =>
       /\ menuLast'.item \in menu'.selected
       /\ menu'.select = menuLast'.item
       /\ menuLast'.op \in {VK_ENTER, VK_SPACE} => menu'.clicks = 1
       /\ menu'.hidden
       /\ menu'.ariaExpanded = "false"]_vars

\* C18 witness: Space has activated the last item.
C18_Witness ==
  /\ menuLast.op = VK_SPACE
  /\ menuLast.item = NumItems
  /\ menu.select = NumItems
  /\ menu.clicks = 1
  /\ menu.hidden

RECURSIVE NextTimes(_, _)
\* The item reached from item i by k presses of ArrowDown.
NextTimes(i, k) == IF k = 0 THEN i ELSE NextTimes(nextItem(i), k - 1)

RECURSIVE PreviousTimes(_, _)
\* The item reached from item i by k presses of ArrowUp.
PreviousTimes(i, k) == IF k = 0 THEN i ELSE PreviousTimes(previousItem(i), k - 1)

\* C19: with the focus on item i of n (counted from 0), ArrowDown and
\* ArrowRight move it to item (i + 1) mod n, ArrowUp and ArrowLeft to item
\* (i - 1) mod n, so it stays on an item and wraps at both ends; n presses
\* of one direction bring it back to the item it started on.
C19_ArrowsCycle ==
  /\ [][/\ OnItem({VK_ARROW_DOWN, VK_ARROW_RIGHT}) =>
             menu'.focus = [on |-> "item", item |-> (menuLast'.item % NumItems) + 1]
        /\ OnItem({VK_ARROW_UP, VK_ARROW_LEFT}) =>
             menu'.focus =
               [on |-> "item", item |-> ((menuLast'.item + NumItems - 2) % NumItems) + 1]]_vars
  /\ [](\A i \in Items : NextTimes(i, NumItems) = i /\ PreviousTimes(i, NumItems) = i)

\* C19 witness: ArrowDown on the last item has moved the focus to the first.
C19_Witness ==
  /\ menuLast.op = VK_ARROW_DOWN
  /\ menuLast.item = NumItems
  /\ menu.focus = [on |-> "item", item |-> 1]
  /\ ~menu.hidden

\* C20: on the button of a closed menu, ArrowDown opens the menu with the
\* focus on the first item, ArrowUp with the focus on the last item, and a
\* click, Enter or Space with the focus on the item marked selected, or on
\* the first item when none is marked.
C20_OpeningFocus ==
  [][(~isOpen(menu) /\ menu.hidden) =>
       /\ OnButton({VK_ARROW_DOWN}) =>
            (isOpen(menu') /\ ~menu'.hidden /\ menu'.focus = [on |-> "item", item |-> 1])
       /\ OnButton({VK_ARROW_UP}) =>
            (isOpen(menu') /\ ~menu'.hidden
               /\ menu'.focus = [on |-> "item", item |-> NumItems])
       /\ OnButton({"click", VK_ENTER, VK_SPACE}) =>
            (isOpen(menu') /\ ~menu'.hidden /\ menu'.focus.on = "item"
               /\ IF menu.selected = {} THEN menu'.focus.item = 1
                  ELSE menu'.focus.item \in menu.selected)]_vars

\* C20 witness: Enter on the button has opened the menu with the focus on
\* the second item, the one marked selected.
C20_Witness ==
  /\ menuLast.op = VK_ENTER
  /\ menuLast.item = 0
  /\ menu.selected = {2}
  /\ menu.focus = [on |-> "item", item |-> 2]
  /\ isOpen(menu)

\* C21: with the menu open, Escape, on the button or on an item, leaves
\* the menu closed and the focus on the button; Tab leaves the menu closed
\* and does not bring a focus that was elsewhere to the button.
C21_EscapeReturnsFocus ==
  [][(isOpen(menu) /\ ~menu.hidden) =>
       /\ menuLast'.op = VK_ESC =>
            (menu'.ariaExpanded = "false" /\ menu'.hidden
               /\ menu'.focus = [on |-> "button", item |-> 0])
       /\ menuLast'.op = VK_TAB =>
            (menu'.ariaExpanded = "false" /\ menu'.hidden
               /\ (menu.focus.on # "button" => menu'.focus.on # "button"))]_vars

\* C21 witness: Escape on the last item of the open menu has closed it and
\* the button has the focus.
C21_Witness ==
  /\ menuLast.op = VK_ESC
  /\ menuLast.item = NumItems
  /\ menu.hidden
  /\ menu.focus = [on |-> "button", item |-> 0]

\* C22: collapse() writes aria-expanded="false" on the control first and
\* then hides the siblings listed in aria-controls one by one, the last of
\* the list first; expand() writes aria-expanded="true" first and then
\* shows them one by one, the first of the list first. When the reading of
\* the list throws, the write of aria-expanded is the only one made.
C22_WriteOrder ==
  [][(phase = "upgraded" /\ (Called("collapse") \/ Called("expand"))) =>
       /\ writes' # <<>>
       /\ Head(writes') = 0
       /\ control'.ariaExpanded = (IF Called("collapse") THEN "false" ELSE "true")
       /\ thrown' # "none" => writes' = <<0>>
       /\ (thrown' = "none" /\ Called("collapse")) =>
            ResolvedInOrder(Reverse(Tail(writes')), control, regions)
       /\ (thrown' = "none" /\ Called("expand")) =>
            ResolvedInOrder(Tail(writes'), control, regions)]_vars

\* C22 witness: collapse() on a widget that lists sibling 1 before sibling 2
\* has written the control, then sibling 2, then sibling 1.
C22_Witness ==
  /\ phase = "upgraded"
  /\ last.op = "collapse"
  /\ regionIds(control) = <<regions[1].id, regions[2].id>>
  /\ writes = <<0, 2, 1>>
  /\ regions[1].hidden /\ regions[2].hidden

\* C23: expand(), collapse() and toggle() change nothing but the control's
\* aria-expanded and the hidden attribute of the siblings whose id is in
\* aria-controls when they are called: aria-controls and every other
\* attribute of the control stay, a listed sibling keeps its id, classes
\* and role, and a sibling whose id is not in the list, or is no longer in
\* it after a removal, keeps its hidden state as well.
C23_ToggleFrame ==
  [][(phase = "upgraded" /\ (Called("expand") \/ Called("collapse") \/ Called("toggle"))) =>
       /\ control' = [control EXCEPT !.ariaExpanded = control'.ariaExpanded]
       /\ \A e \in Elems :
            IF e \in Listed(control, regions)
            THEN regions'[e] = [regions[e] EXCEPT !.hidden = regions'[e].hidden]
            ELSE regions'[e] = regions[e]
       /\ UNCHANGED <<listeners, rootClasses, nodeName>>]_vars

\* C23 witness: expand() has shown the listed sibling and left hidden a
\* sibling that was a region of the widget and is no longer in the list.
C23_Witness ==
  /\ phase = "upgraded"
  /\ last.op = "expand"
  /\ thrown = "none"
  /\ \E e \in Elems \ Listed(control, regions) :
       regions[e].hidden /\ regions[e].role = "region"
  /\ \E e \in Listed(control, regions) : ~regions[e].hidden

\* C24: while the control is disabled, expand() leaves aria-expanded "true"
\* and every listed sibling shown, collapse() leaves it "false" and every
\* listed sibling hidden, and toggle() flips both, as on an enabled
\* control; a click on the disabled control changes neither.
C24_MethodsIgnoreDisabled ==
  [][(phase = "upgraded" /\ DisabledIgnoringCase(control)) =>
       /\ Called("expand") =>
            (control'.ariaExpanded = "true"
               /\ \A e \in Listed(control, regions) : ~regions'[e].hidden)
       /\ Called("collapse") =>
            (control'.ariaExpanded = "false"
               /\ \A e \in Listed(control, regions) : regions'[e].hidden)
       /\ Called("toggle") =>
            (Toggled
               /\ \A e \in Listed(control, regions) :
                    regions'[e].hidden <=> isExpanded(control))
       /\ last'.op = "click" => SameState]_vars

\* C24 witness: toggle() has expanded a widget whose control carries
\* aria-disabled="true".
C24_Witness ==
  /\ phase = "upgraded"
  /\ last.op = "toggle"
  /\ control.ariaDisabled = "true"
  /\ control.ariaExpanded = "true"
  /\ Listed(control, regions) # {}
  /\ \A e \in Listed(control, regions) : ~regions[e].hidden

\* C25: the control never has more than one click listener or more than
\* one keydown listener of the widget; while the widget is upgraded and not
\* downgraded they are the two of its current instance, however often
\* init() ran on it and however often the root was downgraded and upgraded
\* again; and one click on the enabled control then flips aria-expanded and
\* the listed siblings once.
C25_OneListenerPerEvent ==
  /\ [](Cardinality(listening(listeners, "click")) <= 1
          /\ Cardinality(listening(listeners, "keydown")) <= 1)
  /\ []((phase = "upgraded" /\ ~downgraded) =>
          listeners = {listener("keydown", instance), listener("click", instance)})
  /\ [][(phase = "upgraded" /\ ~downgraded /\ ~DisabledIgnoringCase(control)
           /\ last'.op = "click") =>
          /\ Toggled
          /\ thrown' = "none"
          /\ \A e \in Listed(control, regions) :
               regions'[e].hidden <=> isExpanded(control)]_vars

\* C25 witness: one click has expanded a widget whose root was downgraded
\* and upgraded again.
C25_Witness ==
  /\ phase = "upgraded"
  /\ ~downgraded
  /\ instance = 2
  /\ last.op = "click"
  /\ control.ariaExpanded = "true"
  /\ Listed(control, regions) # {}
  /\ \A e \in Listed(control, regions) : ~regions[e].hidden

====
